---- MODULE Spec2Model ----
(***************************************************************************)
(* A model of raster-footprint: the mask builder, the mask-to-geometry     *)
(* extractor, the densifier, the reprojector, the simplifier and the       *)
(* footprint_from_* entry points that chain them.                          *)
(*                                                                         *)
(* Numbers.  A coordinate is a decimal number with at most                 *)
(* DEFAULT_PRECISION + 1 fractional digits, held as the integer count of   *)
(* its last digit (so 1 is 10^-8 and 10 is 10^-7).  Arithmetic is exact    *)
(* decimal/real arithmetic: binary floating-point representation error is  *)
(* not modelled.  Rounding is numpy's and Python's round-half-to-even.     *)
(***************************************************************************)
EXTENDS Integers, Sequences, FiniteSets, TLC

VARIABLES
    pc,              \* the operation that produced the current state
    point_list,      \* densify_by_*: the point list argument
    factor,          \* the factor argument, None when not given
    distance,        \* the distance argument, None when not given
    precision,       \* the precision argument, None when not given
    tolerance,       \* the (simplify) tolerance argument, None when not given
    segments_out,    \* densify_by_distance: densified_points, one array per segment
    points_out,      \* densify_by_*: the returned point list
    geometry,        \* densify_geometry, simplify_extent: the geometry argument
    geom_out,        \* densify_geometry, simplify_extent: what the call returned or raised
    data_array,      \* create_mask, footprint_from_data: the raster data
    nodata,          \* the nodata argument, None when not given
    mask,            \* the validity mask (create_mask's result, footprint_from_mask's argument)
    transform,       \* footprint_from_*: the affine transform argument
    source_crs,      \* footprint_from_*: the CRS of the raster
    destination_crs, \* footprint_from_*: the CRS asked for the footprint
    convex_hull,     \* footprint_from_*: the convex_hull argument
    holes,           \* footprint_from_*: the holes argument
    reader,          \* footprint_from_rasterio_reader: the opened raster
    bands,           \* footprint_from_rasterio_reader: the bands argument, None when not given
    with_nodata,     \* footprint_from_rasterio_reader: the with_nodata argument
    reads,           \* footprint_from_rasterio_reader: the reader methods called for pixels or masks
    stages,          \* footprint_from_mask: the stages run so far, in order
    extracted,       \* footprint_from_mask: geometry (None when there is none)
    densified,       \* footprint_from_mask: what densify_geometry returned or raised
    reprojected,     \* footprint_from_mask: what reproject_geometry returned or raised
    simplified,      \* footprint_from_mask: what simplify_geometry returned or raised
    result           \* footprint_from_*: the returned dictionary (None when absent), or the exception

optVars == <<factor, distance, precision, tolerance>>
pointVars == <<point_list, segments_out, points_out>>
geomVars == <<geometry, geom_out>>
maskVars == <<data_array, nodata, mask>>
readerVars == <<reader, bands, with_nodata, reads>>
argVars == <<transform, source_crs, destination_crs, convex_hull, holes>>
stageVars == <<stages, extracted, densified, reprojected, simplified, result>>
footVars == <<argVars, stageVars>>
vars == <<pc, optVars, pointVars, geomVars, maskVars, readerVars, footVars>>

----------------------------------------------------------------------------
(* Optional values: Python's None and a present value. *)
None == <<>>
Some(v) == <<v>>
Get(o) == o[1]
Default(o, d) == IF o = None THEN d ELSE Get(o)

(* constants.py: DEFAULT_PRECISION *)
DEFAULT_PRECISION == 7

(* Bounds of the model. *)
MaxPoints == 3
MaxFactor == 3
MaxDistance == 5
MaxPolygons == 2
MaxTolerance == 3
MaxBands == 2

----------------------------------------------------------------------------
(* Decimal arithmetic. *)

RECURSIVE Pow10(_)
Pow10(n) == IF n = 0 THEN 1 ELSE 10 * Pow10(n - 1)

(* The number of fractional digits a coordinate of the model can carry. *)
Resolution == DEFAULT_PRECISION + 1

Abs(x) == IF x < 0 THEN -x ELSE x

RECURSIVE ISqrtIter(_, _, _)
ISqrtIter(x, lo, hi) ==
    IF lo = hi THEN lo
    ELSE LET mid == (lo + hi + 1) \div 2
         IN IF mid * mid <= x THEN ISqrtIter(x, mid, hi)
                              ELSE ISqrtIter(x, lo, mid - 1)

(* floor(sqrt(x)) for x >= 0 *)
ISqrt(x) == ISqrtIter(x, 0, IF x < 46340 THEN x ELSE 46340)

(* A real number r is carried as floor(2r) and whether 2r is an integer:  *)
(* that is what rounding to a multiple of a power of ten needs.            *)
Rational(n, m) == [h |-> (2 * n) \div m, exact |-> (2 * n) % m = 0]

(* a + w / sqrt(s), s >= 1 *)
Surd(a, w, s) ==
    LET n == ISqrt((4 * w * w) \div s)
        exact == n * n * s = 4 * w * w
    IN [h |-> 2 * a + (IF w >= 0 THEN n ELSE IF exact THEN -n ELSE -(n + 1)),
        exact |-> exact]

(* numpy.round(r, decimals): round half to even at `decimals` places. *)
np_round(r, decimals) ==
    LET U == Pow10(Resolution - decimals)
        q == r.h \div (2 * U)
        rem == r.h % (2 * U)
    IN IF rem < U THEN q * U
       ELSE IF rem > U \/ ~r.exact THEN (q + 1) * U
       ELSE IF q % 2 = 0 THEN q * U ELSE (q + 1) * U

(* numpy.interp(x, xp, fp) for xp = existing_indices = 0, factor, 2*factor, ... *)
np_interp(x, step, fp) ==
    LET j == x \div step
        k == x % step
    IN IF k = 0 THEN Rational(fp[j + 1], 1)
       ELSE Rational(fp[j + 1] * step + (fp[j + 2] - fp[j + 1]) * k, step)

Column(points, c) == [i \in 1..Len(points) |-> points[i][c]]

RECURSIVE Flatten(_)
Flatten(ss) == IF ss = <<>> THEN <<>> ELSE Head(ss) \o Flatten(Tail(ss))

----------------------------------------------------------------------------
(* densify.py *)

(* A slip: interp_indices built without the "+ 1". *)
densify_by_factor_short(points, F, prec) ==
    LET last == (Len(points) - 1) * F
    IN [t \in 1..last |->
          <<np_round(np_interp(t - 1, F, Column(points, 1)), prec),
            np_round(np_interp(t - 1, F, Column(points, 2)), prec)>>]

(* A slip: the interpolated coordinates are not rounded to `precision`. *)
densify_by_factor_unrounded(points, F, prec) ==
    LET last == (Len(points) - 1) * F
    IN [t \in 1..(last + 1) |->
          <<np_round(np_interp(t - 1, F, Column(points, 1)), Resolution),
            np_round(np_interp(t - 1, F, Column(points, 2)), Resolution)>>]

densify_by_factor(points, F, prec) ==
    LET densified_number == Len(points) * F
        \* existing_indices = 0, F, ..., densified_number - F
        last == densified_number - F
        \* interp_indices = 0 .. existing_indices[-1]
    IN [t \in 1..(last + 1) |->
          <<np_round(np_interp(t - 1, F, Column(points, 1)), prec),
            np_round(np_interp(t - 1, F, Column(points, 2)), prec)>>]

SquaredLength(p, q) == (q[1] - p[1]) * (q[1] - p[1]) + (q[2] - p[2]) * (q[2] - p[2])

(* A slip: floor(x) + 1 samples where numpy.arange(x) gives ceil(x). *)
arange_len_floor(s, d) == IF s = 0 THEN 0 ELSE ISqrt(s \div (d * d)) + 1

(* len(numpy.arange(x)) = ceil(x), for x = segment_length / distance *)
arange_len(s, d) ==
    LET c == ISqrt(s \div (d * d))
    IN IF c * c * d * d = s THEN c ELSE c + 1

(* A slip: the samples are spread evenly between the two end points. *)
densify_segment_even(p, q, d, prec) ==
    LET n == arange_len(SquaredLength(p, q), d)
    IN [k \in 1..n |->
          <<np_round(Rational(p[1] * n + (k - 1) * (q[1] - p[1]), n), prec),
            np_round(Rational(p[2] * n + (k - 1) * (q[2] - p[2]), n), prec)>>]

(* densified_points[index], rounded: step * coordinate_steps[index] + points[index] *)
densify_segment(p, q, d, prec) ==
    LET s == SquaredLength(p, q)
        n == arange_len(s, d)
    IN [k \in 1..n |->
          <<np_round(Surd(p[1], (k - 1) * d * (q[1] - p[1]), s), prec),
            np_round(Surd(p[2], (k - 1) * d * (q[2] - p[2]), s), prec)>>]

densified_points(points, d, prec) ==
    [index \in 1..(Len(points) - 1) |->
        densify_segment(points[index], points[index + 1], d, prec)]

densify_by_distance(points, d, prec) ==
    LET final_point == points[Len(points)]
    IN Flatten(densified_points(points, d, prec))
         \o << <<np_round(Rational(final_point[1], 1), prec),
                 np_round(Rational(final_point[2], 1), prec)>> >>

----------------------------------------------------------------------------
(* Geometries (shapely).  A ring is a sequence of points, a polygon a      *)
(* shell ring and a sequence of hole rings; a geometry is a Polygon, a     *)
(* MultiPolygon or, for the calls that must reject it, a Point or a        *)
(* LineString.                                                             *)

EmptyPolygon == [shell |-> <<>>, holes |-> <<>>]
NoGeometry == [type |-> "None", geoms |-> <<>>]
PolygonGeometry(p) == [type |-> "Polygon", geoms |-> <<p>>]
PointGeometry == [type |-> "Point", geoms |-> <<>>]
LineStringGeometry == [type |-> "LineString", geoms |-> <<>>]

(* What a call did: returned a value, or raised an exception. *)
Returned(v) == [raised |-> "", value |-> v]
Raised(e, v) == [raised |-> e, value |-> v]

(* the first exception of a list of outcomes, "" when none raised *)
RECURSIVE FirstRaised(_)
FirstRaised(outs) ==
    IF outs = <<>> THEN ""
    ELSE IF Head(outs).raised # "" THEN Head(outs).raised
    ELSE FirstRaised(Tail(outs))

Values(outs) == [i \in 1..Len(outs) |-> outs[i].value]

(* shapely LinearRing(coords): an open ring is closed, a closed ring of 3  *)
(* coordinates gets its first one once more, fewer than 4 is an error.     *)
LinearRing(coords) ==
    LET n == Len(coords)
        closure == n > 0 /\ (n = 3 \/ coords[1] # coords[n])
        ring == IF closure THEN Append(coords, coords[1]) ELSE coords
    IN IF n = 0 THEN Returned(<<>>)
       ELSE IF Len(ring) < 4 THEN Raised("ValueError", <<>>)
       ELSE Returned(ring)

(* shapely Polygon(shell=shell, holes=holes) *)
Polygon(shell, interiors) ==
    LET s == LinearRing(shell)
        hs == [i \in 1..Len(interiors) |-> LinearRing(interiors[i])]
    IN IF s.raised # "" THEN Raised(s.raised, EmptyPolygon)
       ELSE IF FirstRaised(hs) # "" THEN Raised(FirstRaised(hs), EmptyPolygon)
       ELSE Returned([shell |-> s.value, holes |-> Values(hs)])

(* shapely MultiPolygon(polygons): empty polygons are left out *)
MultiPolygon(polygons) ==
    [type |-> "MultiPolygon", geoms |-> SelectSeq(polygons, LAMBDA p : p.shell # <<>>)]

----------------------------------------------------------------------------
(* densify.py: densify_polygon, densify_multipolygon, densify_geometry *)

(* numpy raises IndexError on an empty coordinate list *)
DensifyRing(coords, f, d, prec) ==
    IF f # None THEN densify_by_factor(coords, Get(f), prec)
                ELSE densify_by_distance(coords, Get(d), prec)

(* A slip: a missing factor is taken to be 1, so the rings are rebuilt and rounded. *)
densify_polygon_factor_one(polygon, f, d, prec) ==
    IF f # None /\ d # None THEN Raised("ValueError", EmptyPolygon)
    ELSE IF polygon.shell = <<>> THEN Raised("IndexError", EmptyPolygon)
    ELSE LET g == IF f = None /\ d = None THEN Some(1) ELSE f
         IN Polygon(DensifyRing(polygon.shell, g, d, prec),
                    [i \in 1..Len(polygon.holes) |->
                        DensifyRing(polygon.holes[i], g, d, prec)])

(* A slip: only the exterior ring is densified. *)
densify_polygon_shell_only(polygon, f, d, prec) ==
    IF f # None /\ d # None THEN Raised("ValueError", EmptyPolygon)
    ELSE IF f # None \/ d # None THEN
        IF polygon.shell = <<>> THEN Raised("IndexError", EmptyPolygon)
        ELSE Polygon(DensifyRing(polygon.shell, f, d, prec), polygon.holes)
    ELSE Returned(polygon)

densify_polygon(polygon, f, d, prec) ==
    IF f # None /\ d # None THEN Raised("ValueError", EmptyPolygon)
    ELSE IF f # None \/ d # None THEN
        IF polygon.shell = <<>> THEN Raised("IndexError", EmptyPolygon)
        ELSE Polygon(DensifyRing(polygon.shell, f, d, prec),
                     [i \in 1..Len(polygon.holes) |->
                         DensifyRing(polygon.holes[i], f, d, prec)])
    ELSE Returned(polygon)

densify_multipolygon(multipolygon, f, d, prec) ==
    LET densified_polygons ==
            [i \in 1..Len(multipolygon.geoms) |->
                densify_polygon(multipolygon.geoms[i], f, d, prec)]
    IN IF FirstRaised(densified_polygons) # ""
       THEN Raised(FirstRaised(densified_polygons), NoGeometry)
       ELSE Returned(MultiPolygon(Values(densified_polygons)))

densify_geometry(geom, f, d, prec) ==
    IF geom.type = "Polygon" THEN
        LET r == densify_polygon(geom.geoms[1], f, d, prec)
        IN IF r.raised # "" THEN Raised(r.raised, NoGeometry)
           ELSE Returned(PolygonGeometry(r.value))
    ELSE IF geom.type = "MultiPolygon" THEN densify_multipolygon(geom, f, d, prec)
    ELSE Raised("TypeError", NoGeometry)

----------------------------------------------------------------------------
(* simplify.py.  polygon.simplify(tolerance, preserve_topology=False) is   *)
(* GEOS's Douglas-Peucker simplifier: every ring is simplified on its own  *)
(* with its end point kept, and a ring left with fewer than 4 points is    *)
(* dropped (a dropped shell leaves the empty polygon).  The order of the   *)
(* points that remain is kept as it is.                                    *)

(* the squared distance of p from the segment a-b, as a fraction <<n, d>> *)
PointToSegmentSq(p, a, b) ==
    LET len2 == SquaredLength(a, b)
        dot == (p[1] - a[1]) * (b[1] - a[1]) + (p[2] - a[2]) * (b[2] - a[2])
        cross == (b[1] - a[1]) * (p[2] - a[2]) - (b[2] - a[2]) * (p[1] - a[1])
    IN IF len2 = 0 \/ dot <= 0 THEN <<SquaredLength(p, a), 1>>
       ELSE IF dot >= len2 THEN <<SquaredLength(p, b), 1>>
       ELSE <<cross * cross, len2>>

(* x[1]/x[2] < y[1]/y[2], without the cross products *)
FracLess(x, y) ==
    LET qx == x[1] \div x[2]
        qy == y[1] \div y[2]
    IN IF qx # qy THEN qx < qy
       ELSE (x[1] % x[2]) * y[2] < (y[1] % y[2]) * x[2]

(* the indices strictly between i and j that Douglas-Peucker keeps *)
RECURSIVE DPSection(_, _, _, _)
DPSection(pts, i, j, tol) ==
    IF j <= i + 1 THEN {}
    ELSE LET dist(k) == PointToSegmentSq(pts[k], pts[i], pts[j])
             inner == (i + 1)..(j - 1)
             maxIndex == CHOOSE k \in inner :
                            /\ \A m \in inner : ~FracLess(dist(k), dist(m))
                            /\ \A m \in inner : m < k => FracLess(dist(m), dist(k))
         IN IF ~FracLess(<<tol * tol, 1>>, dist(maxIndex)) THEN {}
            ELSE DPSection(pts, i, maxIndex, tol) \cup {maxIndex}
                   \cup DPSection(pts, maxIndex, j, tol)

RECURSIVE SubSeqAt(_, _, _)
SubSeqAt(pts, keep, i) ==
    IF i > Len(pts) THEN <<>>
    ELSE (IF i \in keep THEN <<pts[i]>> ELSE <<>>) \o SubSeqAt(pts, keep, i + 1)

DouglasPeucker(pts, tol) ==
    IF Len(pts) < 2 THEN pts
    ELSE SubSeqAt(pts, {1, Len(pts)} \cup DPSection(pts, 1, Len(pts), tol), 1)

(* A slip: rings too short to be rings are kept. *)
geos_simplify_keep_degenerate(polygon, tol) ==
    [shell |-> DouglasPeucker(polygon.shell, tol),
     holes |-> [i \in 1..Len(polygon.holes) |-> DouglasPeucker(polygon.holes[i], tol)]]

geos_simplify(polygon, tol) ==
    LET shell == DouglasPeucker(polygon.shell, tol)
        interiors == [i \in 1..Len(polygon.holes) |-> DouglasPeucker(polygon.holes[i], tol)]
    IN IF Len(shell) < 4 THEN EmptyPolygon
       ELSE [shell |-> shell, holes |-> SelectSeq(interiors, LAMBDA h : Len(h) >= 4)]

(* A slip: the default tolerance is 0, so the polygon is always rebuilt. *)
simplify_polygon_zero(polygon, tol) == geos_simplify(polygon, Default(tol, 0))

simplify_polygon(polygon, tol) ==
    IF tol # None THEN geos_simplify(polygon, Get(tol)) ELSE polygon

simplify_multipolygon(multipolygon, tol) ==
    MultiPolygon([i \in 1..Len(multipolygon.geoms) |->
                     simplify_polygon(multipolygon.geoms[i], tol)])

simplify_extent(extent, tol) ==
    IF extent.type = "Polygon"
    THEN Returned(PolygonGeometry(simplify_polygon(extent.geoms[1], tol)))
    ELSE IF extent.type = "MultiPolygon" THEN Returned(simplify_multipolygon(extent, tol))
    ELSE Raised("TypeError", NoGeometry)

IdleGeom == geometry = NoGeometry /\ geom_out = Returned(NoGeometry)
IdlePoints == point_list = <<>> /\ segments_out = <<>> /\ points_out = <<>>

----------------------------------------------------------------------------
(* mask.py: create_mask.  A pixel value is a number or NaN; an array is    *)
(* its number of dimensions and its planes of rows of cells (a 3D array    *)
(* has one plane per band, a 2D array is held as its single plane).        *)

NaN == [nan |-> TRUE, v |-> 0]
Num(x) == [nan |-> FALSE, v |-> x]

(* numpy's elementwise a != b: true when either side is NaN *)
NotEqual(a, b) == a.nan \/ b.nan \/ a.v # b.v

Array(n, a) == [ndim |-> n, a |-> a]
Plane(array) == array.a[1]
NoArray == Array(0, <<>>)

(* numpy.uint8: sums wrap around at 2^8 *)
UINT8_MODULUS == 256
VALID == 255

np_full(rows, cols, fill_value) ==
    Array(2, << [r \in 1..rows |-> [c \in 1..cols |-> fill_value]] >>)

(* A slip: a missing nodata is taken to be 0. *)
create_mask_nodata_zero(array, nd) ==
    LET planes == array.a
        nd0 == Default(nd, Num(0))
        valid(b, r, c) == IF nd0.nan THEN ~planes[b][r][c].nan
                                     ELSE NotEqual(planes[b][r][c], nd0)
        sum(r, c) == Cardinality({ b \in 1..Len(planes) : valid(b, r, c) }) % UINT8_MODULUS
    IN Array(2, << [r \in 1..Len(planes[1]) |->
                      [c \in 1..Len(planes[1][1]) |-> IF sum(r, c) > 0 THEN VALID ELSE 0]] >>)

create_mask(array, nd) ==
    LET \* data_array[np.newaxis, :] for a 2D array
        planes == array.a
        rows == Len(planes[1])
        cols == Len(planes[1][1])
        \* mask[~np.isnan(data_array)] = 1, or mask[data_array != nodata] = 1
        valid(b, r, c) == IF Get(nd).nan THEN ~planes[b][r][c].nan
                                         ELSE NotEqual(planes[b][r][c], Get(nd))
        \* np.sum(mask, axis=0, dtype=np.uint8)
        sum(r, c) == Cardinality({ b \in 1..Len(planes) : valid(b, r, c) }) % UINT8_MODULUS
    IN IF nd # None
       THEN Array(2, << [r \in 1..rows |->
                           [c \in 1..cols |-> IF sum(r, c) > 0 THEN VALID ELSE 0]] >>)
       ELSE np_full(rows, cols, VALID)

IdleMask == data_array = NoArray /\ nodata = None /\ mask = NoArray

----------------------------------------------------------------------------
(* mask.py: get_mask_extent.                                               *)
(*                                                                         *)
(* rasterio.features.shapes(mask, transform) is modelled as the tracing of *)
(* the 4-connected regions of equal value: a region's boundary is the set  *)
(* of cell sides that separate it from other cells, followed with the      *)
(* region on the right; the ring that starts at the region's first cell    *)
(* (in row-major order) is its exterior, the others are its holes.  Only   *)
(* corners are kept as vertices.  A vertex is <<x, y>>, a cell <<r, c>>    *)
(* covers x in [c-1, c] and y in [r-1, r] before the transform is applied. *)

ValidCells(m) ==
    { rc \in (1..Len(Plane(m))) \X (1..Len(Plane(m)[1])) : Plane(m)[rc[1]][rc[2]] = VALID }

Adjacent(p, q) == Abs(p[1] - q[1]) + Abs(p[2] - q[2]) = 1

RECURSIVE Reach(_, _)
Reach(S, K) ==
    LET N == { n \in S \ K : \E k \in K : Adjacent(n, k) }
    IN IF N = {} THEN K ELSE Reach(S, K \cup N)

FirstCell(S) ==
    CHOOSE p \in S : \A q \in S : p[1] < q[1] \/ (p[1] = q[1] /\ p[2] <= q[2])

(* the regions of the cells S, in the order of their first cells *)
RECURSIVE Regions(_)
Regions(S) ==
    IF S = {} THEN <<>>
    ELSE LET K == Reach(S, {FirstCell(S)})
         IN <<K>> \o Regions(S \ K)

(* the sides of the cells of K that bound K, directed with K on the right *)
BoundaryEdges(K) ==
    UNION { {e \in { << <<c - 1, r - 1>>, <<c, r - 1>>, <<r - 1, c>> >>,
                     << <<c, r - 1>>, <<c, r>>, <<r, c + 1>> >>,
                     << <<c, r>>, <<c - 1, r>>, <<r + 1, c>> >>,
                     << <<c - 1, r>>, <<c - 1, r - 1>>, <<r, c - 1>> >> } :
                  <<e[3][1], e[3][2]>> \notin K }
            : <<r, c>> \in K }

EdgeDir(e) == <<e[2][1] - e[1][1], e[2][2] - e[1][2]>>

(* the edge that follows e; where the region touches itself at a vertex  *)
(* the turn to the left is taken, which keeps every ring simple           *)
NextEdge(E, e) ==
    LET d == EdgeDir(e)
        out(t) == { f \in E : f[1] = e[2] /\ EdgeDir(f) = t }
        right == out(<<-d[2], d[1]>>)
        ahead == out(d)
        left == out(<<d[2], -d[1]>>)
    IN IF left # {} THEN CHOOSE f \in left : TRUE
       ELSE IF ahead # {} THEN CHOOSE f \in ahead : TRUE
       ELSE CHOOSE f \in right : TRUE

RECURSIVE TraceLoop(_, _, _, _)
TraceLoop(E, start, e, acc) ==
    LET f == NextEdge(E, e)
    IN IF f = start THEN acc ELSE TraceLoop(E, start, f, Append(acc, f))

PrevEdge(E, e) == CHOOSE f \in E : NextEdge(E, f) = e

IsCornerEdge(E, e) == EdgeDir(PrevEdge(E, e)) # EdgeDir(e)

(* the closed ring of the corners along a loop of edges that starts at a corner *)
RingOfLoop(loop) ==
    LET corners == SelectSeq([i \in 1..Len(loop) |->
                                 [v |-> loop[i][1],
                                  corner |-> i = 1 \/ EdgeDir(loop[i - 1]) # EdgeDir(loop[i])]],
                             LAMBDA x : x.corner)
    IN [i \in 1..Len(corners) |-> corners[i].v] \o <<loop[1][1]>>

LoopFrom(E, start) == TraceLoop(E, start, start, <<start>>)

EdgeSet(loop) == { loop[i] : i \in 1..Len(loop) }

FirstCornerEdge(E, F) ==
    CHOOSE e \in F : /\ IsCornerEdge(E, e)
                     /\ \A f \in F : IsCornerEdge(E, f) =>
                           \/ e[1][2] < f[1][2]
                           \/ (e[1][2] = f[1][2] /\ e[1][1] < f[1][1])
                           \/ (e[1] = f[1] /\ e[2][2] < f[2][2])
                           \/ (e[1] = f[1] /\ e[2][2] = f[2][2] /\ e[2][1] <= f[2][1])

(* the rings of the loops that the edges F (part of E) form *)
RECURSIVE HoleRings(_, _)
HoleRings(E, F) ==
    IF F = {} THEN <<>>
    ELSE LET loop == LoopFrom(E, FirstCornerEdge(E, F))
         IN <<RingOfLoop(loop)>> \o HoleRings(E, F \ EdgeSet(loop))

(* the polygon of region K, in pixel coordinates *)
RegionPolygon(K) ==
    LET E == { <<e[1], e[2]>> : e \in BoundaryEdges(K) }
        first == FirstCell(K)
        top == << <<first[2] - 1, first[1] - 1>>, <<first[2], first[1] - 1>> >>
        exterior == LoopFrom(E, top)
    IN [shell |-> RingOfLoop(exterior), holes |-> HoleRings(E, E \ EdgeSet(exterior))]

(* affine.Affine(a, b, c, d, e, f) * (x, y) *)
Affine(a, b, c, d, e, f) == [a |-> a, b |-> b, c |-> c, d |-> d, e |-> e, f |-> f]
ApplyAffine(t, v) == <<t.a * v[1] + t.b * v[2] + t.c, t.d * v[1] + t.e * v[2] + t.f>>

MapRing(ring, Op(_)) == [i \in 1..Len(ring) |-> Op(ring[i])]
MapPolygon(polygon, Op(_)) ==
    [shell |-> MapRing(polygon.shell, Op),
     holes |-> [i \in 1..Len(polygon.holes) |-> MapRing(polygon.holes[i], Op)]]

(* the (polygon, value) pairs of rasterio.features.shapes whose value is 255 *)
shapes(m, t) ==
    LET regions == Regions(ValidCells(m))
    IN [i \in 1..Len(regions) |->
           MapPolygon(RegionPolygon(regions[i]), LAMBDA v : ApplyAffine(t, v))]

(* twice the signed area of a closed ring (shapely signed_area) *)
RECURSIVE SignedArea2(_)
SignedArea2(ring) ==
    IF Len(ring) < 2 THEN 0
    ELSE ring[1][1] * ring[2][2] - ring[2][1] * ring[1][2] + SignedArea2(Tail(ring))

Reverse(ring) == [i \in 1..Len(ring) |-> ring[Len(ring) + 1 - i]]

(* A slip: the rings are left as the tracing wound them. *)
orient_unchanged(polygon) == polygon

(* shapely.geometry.polygon.orient(polygon, sign=1.0) *)
orient(polygon) ==
    [shell |-> IF SignedArea2(polygon.shell) >= 0 THEN polygon.shell
                                                  ELSE Reverse(polygon.shell),
     holes |-> [i \in 1..Len(polygon.holes) |->
                   IF SignedArea2(polygon.holes[i]) <= 0 THEN polygon.holes[i]
                                                         ELSE Reverse(polygon.holes[i])]]

Cross(a, b, p) == (b[1] - a[1]) * (p[2] - a[2]) - (b[2] - a[2]) * (p[1] - a[1])

OnSegment(p, a, b) ==
    /\ Cross(a, b, p) = 0
    /\ (a[1] <= p[1] /\ p[1] <= b[1]) \/ (b[1] <= p[1] /\ p[1] <= a[1])
    /\ (a[2] <= p[2] /\ p[2] <= b[2]) \/ (b[2] <= p[2] /\ p[2] <= a[2])

(* p is inside the closed ring or on it *)
Covers(ring, p) ==
    LET edges == 1..(Len(ring) - 1)
        crosses(i) ==
            LET a == ring[i]
                b == ring[i + 1]
            IN /\ (a[2] > p[2]) # (b[2] > p[2])
               /\ IF b[2] > a[2]
                  THEN (p[1] - a[1]) * (b[2] - a[2]) < (p[2] - a[2]) * (b[1] - a[1])
                  ELSE (p[1] - a[1]) * (b[2] - a[2]) > (p[2] - a[2]) * (b[1] - a[1])
    IN \/ \E i \in edges : OnSegment(p, ring[i], ring[i + 1])
       \/ Cardinality({ i \in edges : crosses(i) }) % 2 = 1

Double(ring) == [i \in 1..Len(ring) |-> <<2 * ring[i][1], 2 * ring[i][2]>>]

(* the ring inner lies within the closed ring outer: the rings of two     *)
(* regions never cross, so it is enough that no part of an edge of inner  *)
(* between two vertices of either ring leaves outer                       *)
Within(inner, outer) ==
    LET in2 == Double(inner)
        out2 == Double(outer)
        breaks(i) == {in2[i], in2[i + 1]}
                       \cup { out2[j] : j \in { k \in 1..Len(out2) :
                                                   OnSegment(out2[k], in2[i], in2[i + 1]) } }
    IN \A i \in 1..(Len(in2) - 1) : \A u \in breaks(i), v \in breaks(i) :
          Covers(out2, <<(u[1] + v[1]) \div 2, (u[2] + v[2]) \div 2>>)

(* A slip: the filled shells are not unioned. *)
unary_union_none(polygons) == polygons

(* shapely.ops.unary_union of the filled shells of the regions of a mask: *)
(* two of them are nested or share boundary points only, so the union is  *)
(* made of the shells that lie within no other one                        *)
unary_union(polygons) ==
    LET absorbed(i) == \E j \in 1..Len(polygons) :
                          j # i /\ Within(polygons[i].shell, polygons[j].shell)
        keep == { i \in 1..Len(polygons) : ~absorbed(i) }
    IN [k \in 1..Cardinality(keep) |->
           polygons[CHOOSE i \in keep : Cardinality({ j \in keep : j < i }) = k - 1]]

(* every vertex of a geometry *)
Vertices(geom) ==
    UNION { { p.shell[k] : k \in 1..Len(p.shell) }
              \cup UNION { { h[k] : k \in 1..Len(h) } : h \in { p.holes[n] : n \in 1..Len(p.holes) } }
            : p \in { geom.geoms[i] : i \in 1..Len(geom.geoms) } }

(* the hull vertex that follows p: every other vertex is to its left *)
HullNext(P, p) ==
    CHOOSE q \in P \ {p} : \A r \in P :
        \/ Cross(p, q, r) > 0
        \/ Cross(p, q, r) = 0 /\ OnSegment(r, p, q)

RECURSIVE HullFrom(_, _, _)
HullFrom(P, start, p) ==
    LET q == HullNext(P, p)
    IN IF q = start THEN <<p, start>> ELSE <<p>> \o HullFrom(P, start, q)

(* geometry.convex_hull of a geometry with area: one polygon, no holes *)
ConvexHull(geom) ==
    LET P == Vertices(geom)
        start == CHOOSE p \in P : \A q \in P : p[2] < q[2] \/ (p[2] = q[2] /\ p[1] <= q[1])
    IN [shell |-> HullFrom(P, start, start), holes |-> <<>>]

(* A slip: a mask without a valid cell gives an empty multipolygon. *)
get_mask_extent_empty(m, t, hull, keep_holes) ==
    IF hull THEN Some(MultiPolygon(<<>>))
    ELSE Some(MultiPolygon([i \in 1..Len(shapes(m, t)) |-> orient(shapes(m, t)[i])]))

(* A slip: the convex hull is taken only when the holes are dropped. *)
get_mask_extent_hull_unless_holes(m, t, hull, keep_holes) ==
    LET shaped == shapes(m, t)
        filled == unary_union([i \in 1..Len(shaped) |->
                                  [shell |-> shaped[i].shell, holes |-> <<>>]])
        data_polygons == IF ~keep_holes /\ ~hull THEN filled ELSE shaped
        oriented == [i \in 1..Len(data_polygons) |-> orient(data_polygons[i])]
        data_extent == IF Len(oriented) = 1 THEN PolygonGeometry(oriented[1])
                                            ELSE MultiPolygon(oriented)
    IN IF shaped = <<>> THEN None
       ELSE IF hull /\ ~keep_holes
            THEN Some(PolygonGeometry(orient(ConvexHull(data_extent))))
       ELSE Some(data_extent)

get_mask_extent(m, t, hull, keep_holes) ==
    LET shaped == shapes(m, t)
        \* Polygon(poly.exterior.coords), unary_union
        filled == unary_union([i \in 1..Len(shaped) |->
                                  [shell |-> shaped[i].shell, holes |-> <<>>]])
        data_polygons == IF ~keep_holes /\ ~hull THEN filled ELSE shaped
        oriented == [i \in 1..Len(data_polygons) |-> orient(data_polygons[i])]
        data_extent == IF Len(oriented) = 1 THEN PolygonGeometry(oriented[1])
                                            ELSE MultiPolygon(oriented)
    IN IF shaped = <<>> THEN None
       ELSE IF hull THEN Some(PolygonGeometry(orient(ConvexHull(data_extent))))
       ELSE Some(data_extent)

----------------------------------------------------------------------------
(* reproject.py.  The reprojection engine (rasterio.warp.transform_geom)   *)
(* is external: a CRS is represented by the number of its units that make  *)
(* one unit of EPSG:4326, the engine scales every coordinate from the      *)
(* source to the destination units and rounds it to `precision` places.    *)

WGS84 == "EPSG:4326"
UTM31N == "EPSG:32631"
CRSs == {WGS84, UTM31N}

CrsUnits(crs) == IF crs = WGS84 THEN 1 ELSE 3

transform_geom(src, dst, polygon, prec) ==
    LET moved(x) == np_round(Rational(x * CrsUnits(dst), CrsUnits(src)), prec)
    IN MapPolygon(polygon, LAMBDA v : <<moved(v[1]), moved(v[2])>>)

(* [k for k, _ in groupby(coords)]: one point for each run of equal points *)
groupby_keys(coords) ==
    LET keep == SelectSeq([i \in 1..Len(coords) |->
                              [v |-> coords[i], first |-> i = 1 \/ coords[i] # coords[i - 1]]],
                          LAMBDA x : x.first)
    IN [i \in 1..Len(keep) |-> keep[i].v]

(* the body of reproject_polygon, for a destination CRS *)
Reprojected(polygon, src, dst, prec) ==
    LET moved == transform_geom(src, dst, polygon, prec)
    IN Polygon(groupby_keys(moved.shell),
               [i \in 1..Len(moved.holes) |-> groupby_keys(moved.holes[i])])

reproject_polygon(polygon, crs, prec) == Reprojected(polygon, crs, WGS84, prec)

reproject_multipolygon(multipolygon, crs, prec) ==
    LET reprojected_polygons ==
            [i \in 1..Len(multipolygon.geoms) |->
                reproject_polygon(multipolygon.geoms[i], crs, prec)]
    IN IF FirstRaised(reprojected_polygons) # ""
       THEN Raised(FirstRaised(reprojected_polygons), NoGeometry)
       ELSE Returned(MultiPolygon(Values(reprojected_polygons)))

(* A slip: whatever is no Polygon is taken for a MultiPolygon. *)
reproject_extent_unchecked(extent, crs, prec) ==
    IF extent.type = "Polygon" THEN
        LET r == reproject_polygon(extent.geoms[1], crs, prec)
        IN IF r.raised # "" THEN Raised(r.raised, NoGeometry)
           ELSE Returned(PolygonGeometry(r.value))
    ELSE reproject_multipolygon(extent, crs, prec)

reproject_extent(extent, crs, prec) ==
    IF extent.type = "Polygon" THEN
        LET r == reproject_polygon(extent.geoms[1], crs, prec)
        IN IF r.raised # "" THEN Raised(r.raised, NoGeometry)
           ELSE Returned(PolygonGeometry(r.value))
    ELSE IF extent.type = "MultiPolygon" THEN reproject_multipolygon(extent, crs, prec)
    ELSE Raised("TypeError", NoGeometry)

----------------------------------------------------------------------------
(* footprint.py calls the extractor, the reprojector and the simplifier by *)
(* the names get_mask_geometry, reproject_geometry and simplify_geometry.  *)

get_mask_geometry(m, t, hull, keep_holes) == get_mask_extent(m, t, hull, keep_holes)

(* reproject(geometry, sourceCRS, destinationCRS, precision) *)
reproject_geometry(geom, src, dst, prec) ==
    LET polygons == [i \in 1..Len(geom.geoms) |-> Reprojected(geom.geoms[i], src, dst, prec)]
    IN IF geom.type \notin {"Polygon", "MultiPolygon"} THEN Raised("TypeError", NoGeometry)
       ELSE IF FirstRaised(polygons) # "" THEN Raised(FirstRaised(polygons), NoGeometry)
       ELSE IF geom.type = "Polygon" THEN Returned(PolygonGeometry(polygons[1].value))
       ELSE Returned(MultiPolygon(Values(polygons)))

simplify_geometry(geom, tol) == simplify_extent(geom, tol)

(* shapely.geometry.mapping: the GeoJSON-like dictionary of a geometry *)
PolygonCoordinates(polygon) ==
    IF polygon.shell = <<>> THEN <<>> ELSE <<polygon.shell>> \o polygon.holes

mapping(geom) ==
    [type |-> geom.type,
     coordinates |-> IF geom.type = "Polygon" THEN PolygonCoordinates(geom.geoms[1])
                     ELSE [i \in 1..Len(geom.geoms) |-> PolygonCoordinates(geom.geoms[i])]]

----------------------------------------------------------------------------
(* footprint.py: footprint_from_rasterio_reader, up to its call of         *)
(* footprint_from_mask.  The reader (rasterio.io.DatasetReader) is         *)
(* external: it is its per-band nodata values (None where a band has       *)
(* none), its pixel data (one plane per band), its shape, transform and    *)
(* CRS.  Its validity masks follow from the nodata values.                 *)

NoReader == [nodatavals |-> <<>>, data |-> NoArray, shape |-> <<0, 0>>,
             transform |-> Affine(1, 0, 0, 0, 1, 0), crs |-> WGS84]

(* reader.indexes: 1 .. reader.count *)
reader_indexes(rd) == [b \in 1..Len(rd.nodatavals) |-> b]

(* reader.nodata: the nodata value of the first band *)
reader_nodata(rd) == rd.nodatavals[1]

(* Python's nodata == reader.nodata: None and NaN equal no number *)
nodata_eq(nd, meta) == meta # None /\ ~nd.nan /\ ~Get(meta).nan /\ nd.v = Get(meta).v

(* len(set(reader.nodatavals)): the reader makes one float per band, and   *)
(* two NaN floats are two elements of a set                                *)
nodatavals_distinct(vals) ==
    Cardinality({ i \in 1..Len(vals) :
                    \A j \in 1..(i - 1) :
                       vals[j] # vals[i] \/ (vals[i] # None /\ Get(vals[i]).nan) })

(* the validity mask of band b: 255 where the pixel is not the band's      *)
(* nodata value, everywhere when the band has none                         *)
band_mask(rd, b) ==
    LET meta == rd.nodatavals[b]
        valid(v) == \/ meta = None
                    \/ IF Get(meta).nan THEN ~v.nan ELSE NotEqual(v, Get(meta))
    IN [r \in 1..rd.shape[1] |->
          [c \in 1..rd.shape[2] |-> IF valid(rd.data.a[b][r][c]) THEN VALID ELSE 0]]

(* reader.read_masks(indexes), indexes a list: one plane per index *)
read_masks(rd, indexes) == Array(3, [i \in 1..Len(indexes) |-> band_mask(rd, indexes[i])])

(* reader.dataset_mask(): the OR of the band masks *)
dataset_mask(rd) ==
    Array(2, << [r \in 1..rd.shape[1] |->
                   [c \in 1..rd.shape[2] |->
                       IF \E b \in 1..Len(rd.nodatavals) : band_mask(rd, b)[r][c] = VALID
                       THEN VALID ELSE 0]] >>)

(* reader.read(indexes), indexes a list: one plane per index *)
reader_read(rd, indexes) == Array(3, [i \in 1..Len(indexes) |-> rd.data.a[indexes[i]]])

(* mask = np.sum(mask, axis=0, dtype=np.uint8); mask[mask > 0] = 255 *)
sum_masks(masks) ==
    LET total(r, c) ==
            (VALID * Cardinality({ i \in 1..Len(masks.a) : masks.a[i][r][c] = VALID }))
               % UINT8_MODULUS
    IN Array(2, << [r \in 1..Len(masks.a[1]) |->
                      [c \in 1..Len(masks.a[1][1]) |->
                          IF total(r, c) > 0 THEN VALID ELSE 0]] >>)

(* what the call did before footprint_from_mask: the mask, or the          *)
(* exception, and the reader methods called for pixels or masks            *)
Masked(m, calls) == [raised |-> "", value |-> m, reads |-> calls]
Refused == [raised |-> "ValueError", value |-> NoArray, reads |-> <<>>]

(* A slip: with_nodata is looked at before the bands are counted. *)
footprint_from_rasterio_reader_full_first(rd, nd, wn, bs) ==
    LET listed == IF bs = None THEN <<>> ELSE Get(bs)
    IN IF wn THEN Masked(np_full(rd.shape[1], rd.shape[2], VALID), <<>>)
       ELSE IF reader_indexes(rd) = <<>> THEN Refused
       ELSE IF nd # None /\ nodatavals_distinct(rd.nodatavals) # 1 THEN Refused
       ELSE IF nd = None \/ nodata_eq(Get(nd), reader_nodata(rd)) THEN
            IF listed = <<>> THEN Masked(dataset_mask(rd), <<"dataset_mask">>)
            ELSE IF Len(listed) = 1 THEN Masked(read_masks(rd, listed), <<"read_masks">>)
            ELSE Masked(sum_masks(read_masks(rd, listed)), <<"read_masks">>)
       ELSE Masked(create_mask(reader_read(rd, IF listed = <<>> THEN reader_indexes(rd)
                                                                 ELSE listed), nd),
                   <<"read">>)

(* A slip: a nodata argument that is not the reader's nodata is refused. *)
footprint_from_rasterio_reader_must_match(rd, nd, wn, bs) ==
    LET listed == IF bs = None THEN <<>> ELSE Get(bs)
    IN IF reader_indexes(rd) = <<>> THEN Refused
       ELSE IF nd # None /\ (nodatavals_distinct(rd.nodatavals) # 1
                              \/ ~nodata_eq(Get(nd), reader_nodata(rd))) THEN Refused
       ELSE IF wn THEN Masked(np_full(rd.shape[1], rd.shape[2], VALID), <<>>)
       ELSE IF listed = <<>> THEN Masked(dataset_mask(rd), <<"dataset_mask">>)
       ELSE IF Len(listed) = 1 THEN Masked(read_masks(rd, listed), <<"read_masks">>)
       ELSE Masked(sum_masks(read_masks(rd, listed)), <<"read_masks">>)

(* A slip: the nodata argument is checked and then not used. *)
footprint_from_rasterio_reader_masks_only(rd, nd, wn, bs) ==
    LET listed == IF bs = None THEN <<>> ELSE Get(bs)
    IN IF reader_indexes(rd) = <<>> THEN Refused
       ELSE IF nd # None /\ nodatavals_distinct(rd.nodatavals) # 1 THEN Refused
       ELSE IF wn THEN Masked(np_full(rd.shape[1], rd.shape[2], VALID), <<>>)
       ELSE IF listed = <<>> THEN Masked(dataset_mask(rd), <<"dataset_mask">>)
       ELSE IF Len(listed) = 1 THEN Masked(read_masks(rd, listed), <<"read_masks">>)
       ELSE Masked(sum_masks(read_masks(rd, listed)), <<"read_masks">>)

footprint_from_rasterio_reader(rd, nd, wn, bs) ==
    LET listed == IF bs = None THEN <<>> ELSE Get(bs)
    IN IF reader_indexes(rd) = <<>> THEN Refused
       ELSE IF nd # None /\ nodatavals_distinct(rd.nodatavals) # 1 THEN Refused
       ELSE IF wn THEN Masked(np_full(rd.shape[1], rd.shape[2], VALID), <<>>)
       ELSE IF nd = None \/ nodata_eq(Get(nd), reader_nodata(rd)) THEN
            IF listed = <<>> THEN Masked(dataset_mask(rd), <<"dataset_mask">>)
            ELSE IF Len(listed) = 1 THEN Masked(read_masks(rd, listed), <<"read_masks">>)
            ELSE Masked(sum_masks(read_masks(rd, listed)), <<"read_masks">>)
       ELSE Masked(create_mask(reader_read(rd, IF listed = <<>> THEN reader_indexes(rd)
                                                                 ELSE listed), nd),
                   <<"read">>)

IdleReader == reader = NoReader /\ bands = None /\ with_nodata = FALSE /\ reads = <<>>

IdleCall ==
    /\ transform = Affine(1, 0, 0, 0, 1, 0)
    /\ source_crs = WGS84
    /\ destination_crs = WGS84
    /\ convex_hull = FALSE
    /\ holes = FALSE
    /\ stages = <<>>
    /\ extracted = None
    /\ densified = Returned(NoGeometry)
    /\ reprojected = Returned(NoGeometry)
    /\ simplified = Returned(NoGeometry)
    /\ result = Returned(None)

IdleFoot == IdleReader /\ IdleCall

----------------------------------------------------------------------------
(* Point lists given to densify_by_factor and densify_by_distance. *)

Points == { <<0, 0>>, <<10, 0>>, <<10, 10>>, <<3, 4>>, <<5, 15>>, <<-6, 8>> }

RECURSIVE SeqsOfLen(_, _)
SeqsOfLen(S, n) ==
    IF n = 0 THEN { <<>> }
    ELSE { Append(s, x) : s \in SeqsOfLen(S, n - 1), x \in S }

SeqsUpTo(S, lo, hi) == UNION { SeqsOfLen(S, n) : n \in lo..hi }

PrecisionArgs == {None} \cup { Some(p) : p \in (DEFAULT_PRECISION - 1)..Resolution }

InitPoints ==
    /\ pc = "ready"
    /\ point_list \in SeqsUpTo(Points, 1, MaxPoints)
    /\ factor = None
    /\ distance = None
    /\ precision = None
    /\ tolerance = None
    /\ segments_out = <<>>
    /\ points_out = <<>>
    /\ IdleGeom
    /\ IdleMask
    /\ IdleFoot

CallDensifyByFactor ==
    /\ pc = "ready"
    /\ \E F \in 1..MaxFactor, p \in PrecisionArgs :
         /\ factor' = Some(F)
         /\ precision' = p
         /\ points_out' = densify_by_factor(point_list, F, Default(p, DEFAULT_PRECISION))
    /\ pc' = "densify_by_factor"
    /\ UNCHANGED <<point_list, distance, tolerance, segments_out, geomVars, maskVars, readerVars, footVars>>

CallDensifyByDistance ==
    /\ pc = "ready"
    /\ \E d \in 1..MaxDistance, p \in PrecisionArgs :
         /\ distance' = Some(d)
         /\ precision' = p
         /\ segments_out' = densified_points(point_list, d, Default(p, DEFAULT_PRECISION))
         /\ points_out' = densify_by_distance(point_list, d, Default(p, DEFAULT_PRECISION))
    /\ pc' = "densify_by_distance"
    /\ UNCHANGED <<point_list, factor, tolerance, geomVars, maskVars, readerVars, footVars>>

NextPoints == CallDensifyByFactor \/ CallDensifyByDistance

SpecPoints == InitPoints /\ [][NextPoints]_vars

----------------------------------------------------------------------------
(* Geometries given to densify_geometry, reproject_extent and             *)
(* simplify_extent.                                                      *)

Square == << <<0, 0>>, <<40, 0>>, <<40, 40>>, <<0, 40>>, <<0, 0>> >>
SquareHole == << <<10, 10>>, <<10, 20>>, <<20, 20>>, <<20, 10>>, <<10, 10>> >>
Skew == << <<3, 4>>, <<18, 4>>, <<33, 4>>, <<5, 35>>, <<3, 4>> >>

(* a triangle whose second and third corner are one point at 7 places and *)
(* a ring that passes through <<20, 20>> twice, once next to <<21, 21>>    *)
Spike == << <<0, 0>>, <<40, 0>>, <<41, 1>>, <<0, 0>> >>
Knot == << <<0, 0>>, <<40, 0>>, <<20, 20>>, <<21, 21>>, <<40, 40>>, <<0, 40>>,
           <<20, 20>>, <<0, 0>> >>

SamplePolygons ==
    { [shell |-> Square, holes |-> <<>>],
      [shell |-> Square, holes |-> <<SquareHole>>],
      [shell |-> Skew, holes |-> <<>>] }

(* polygons shapely builds as they are given: a clockwise shell with a     *)
(* counter-clockwise hole, and rings that rounding shortens                *)
OddPolygons ==
    { [shell |-> Reverse(Square), holes |-> <<Reverse(SquareHole)>>],
      [shell |-> Spike, holes |-> <<>>],
      [shell |-> Knot, holes |-> <<Spike>>] }

GeometryInputs ==
    { PolygonGeometry(p) : p \in SamplePolygons \cup OddPolygons }
      \cup { MultiPolygon(ps) : ps \in SeqsUpTo(SamplePolygons, 0, MaxPolygons) }
      \cup { MultiPolygon(<<p, q>>) : p \in SamplePolygons, q \in OddPolygons }
      \cup { PointGeometry, LineStringGeometry }

FactorArgs == {None} \cup { Some(F) : F \in 1..MaxFactor }
DistanceArgs == {None} \cup { Some(d) : d \in 1..MaxDistance }
(* tolerances that reach across the hole, half the square, the square *)
LargeTolerances == {15, 30, 60}
ToleranceArgs == {None} \cup { Some(t) : t \in (0..MaxTolerance) \cup LargeTolerances }

InitGeom ==
    /\ pc = "ready"
    /\ geometry \in GeometryInputs
    /\ geom_out = Returned(NoGeometry)
    /\ factor = None
    /\ distance = None
    /\ precision = None
    /\ tolerance = None
    /\ IdlePoints
    /\ IdleMask
    /\ IdleFoot

CallDensifyGeometry ==
    /\ pc = "ready"
    /\ \E f \in FactorArgs, d \in DistanceArgs, p \in PrecisionArgs :
         /\ factor' = f
         /\ distance' = d
         /\ precision' = p
         /\ geom_out' = densify_geometry(geometry, f, d, Default(p, DEFAULT_PRECISION))
    /\ pc' = "densify_geometry"
    /\ UNCHANGED <<tolerance, geometry, pointVars, maskVars, readerVars, footVars>>

CallSimplifyExtent ==
    /\ pc = "ready"
    /\ \E t \in ToleranceArgs :
         /\ tolerance' = t
         /\ geom_out' = simplify_extent(geometry, t)
    /\ pc' = "simplify_extent"
    /\ UNCHANGED <<factor, distance, precision, geometry, pointVars, maskVars, readerVars, footVars>>

CallReprojectExtent ==
    /\ pc = "ready"
    /\ \E crs \in CRSs, p \in PrecisionArgs :
         /\ source_crs' = crs
         /\ precision' = p
         /\ geom_out' = reproject_extent(geometry, crs, Default(p, DEFAULT_PRECISION))
    /\ pc' = "reproject_extent"
    /\ UNCHANGED <<factor, distance, tolerance, geometry, pointVars, maskVars, readerVars,
                   transform, destination_crs, convex_hull, holes, stageVars>>

NextGeom == CallDensifyGeometry \/ CallReprojectExtent \/ CallSimplifyExtent

SpecGeom == InitGeom /\ [][NextGeom]_vars

----------------------------------------------------------------------------
(* Arrays given to create_mask: in every cell the first k bands hold 1 and *)
(* the other bands hold one fill value (0 or NaN), k being none, one, all  *)
(* but one or all of the bands.                                            *)

Shapes == { <<1, 1>>, <<1, 2>>, <<2, 2>> }

BandCounts == (1..MaxBands) \cup ((UINT8_MODULUS - 1)..(UINT8_MODULUS + 1))

Leading(B) == {0, 1, B - 1, B}

Bands(B, shape, k, fill) ==
    [b \in 1..B |->
        [r \in 1..shape[1] |->
            [c \in 1..shape[2] |-> IF b <= k[r][c] THEN Num(1) ELSE fill]]]

Fills == {Num(0), NaN}

NodataArgs == {None, Some(Num(0)), Some(Num(1)), Some(NaN)}

InitMask ==
    /\ pc = "ready"
    /\ \E B \in BandCounts, shape \in Shapes, fill \in Fills :
         \E k \in [1..shape[1] -> [1..shape[2] -> Leading(B)]] :
            \/ data_array = Array(3, Bands(B, shape, k, fill))
            \/ B = 1 /\ data_array = Array(2, Bands(B, shape, k, fill))
    /\ nodata = None
    /\ mask = NoArray
    /\ factor = None
    /\ distance = None
    /\ precision = None
    /\ tolerance = None
    /\ IdlePoints
    /\ IdleGeom
    /\ IdleFoot

CallCreateMask ==
    /\ pc = "ready"
    /\ \E nd \in NodataArgs :
         /\ nodata' = nd
         /\ mask' = create_mask(data_array, nd)
    /\ pc' = "create_mask"
    /\ UNCHANGED <<data_array, readerVars, optVars, pointVars, geomVars, footVars>>

NextMask == CallCreateMask

SpecMask == InitMask /\ [][NextMask]_vars

----------------------------------------------------------------------------
(* footprint.py: footprint_from_mask and footprint_from_data, one step for *)
(* each statement.  Masks are all the grids of 0 and 255 of the shapes     *)
(* above and a ring of valid cells around a nodata cell; arrays are single *)
(* bands of 0 and 1.  The transform and the tolerance are in coordinate    *)
(* units of 10^-Resolution.                                                *)

Grids(shape, values) == [1..shape[1] -> [1..shape[2] -> values]]

Ring3 == << <<VALID, VALID, VALID>>, <<VALID, 0, VALID>>, <<VALID, VALID, VALID>> >>

MaskInputs ==
    { Array(2, <<g>>) : g \in UNION { Grids(shape, {0, VALID}) : shape \in Shapes } \cup {Ring3} }

DataInputs == { Array(2, <<g>>) : g \in Grids(<<1, 2>>, {Num(0), Num(1)}) }

Transforms == { Affine(10, 0, 0, 0, -10, 30), Affine(10, 0, 0, 0, 10, 0) }

DensifyArgs ==
    { <<None, None>>, <<Some(MaxFactor), None>>, <<None, Some(MaxDistance)>>,
      <<Some(MaxFactor), Some(MaxDistance)>> }

StageOrder == <<"extract", "densify", "reproject", "simplify", "serialize">>

InitFoot ==
    /\ pc = "ready"
    /\ \/ mask \in MaskInputs /\ data_array = NoArray
       \/ mask = NoArray /\ data_array \in DataInputs
    /\ nodata = None
    /\ factor = None
    /\ distance = None
    /\ precision = None
    /\ tolerance = None
    /\ IdlePoints
    /\ IdleGeom
    /\ IdleFoot

(* destination_crs: CRS = CRS.from_epsg(4326) *)
DESTINATION_CRS_DEFAULT == WGS84

(* the arguments of a call *)
Arguments ==
    /\ transform' \in Transforms
    /\ source_crs' \in CRSs
    /\ \E dst \in {None} \cup { Some(crs) : crs \in CRSs } :
         destination_crs' = Default(dst, DESTINATION_CRS_DEFAULT)
    /\ precision' \in {None, Some(Resolution)}
    /\ \E fd \in DensifyArgs : factor' = fd[1] /\ distance' = fd[2]
    /\ tolerance' \in {None, Some(MaxTolerance)}
    /\ convex_hull' \in BOOLEAN
    /\ holes' \in BOOLEAN

CallFootprintFromMask ==
    /\ pc = "ready"
    /\ mask # NoArray
    /\ Arguments
    /\ pc' = "footprint_from_mask"
    /\ UNCHANGED <<pointVars, geomVars, maskVars, readerVars, stageVars>>

(* mask = create_mask(data, nodata=nodata); return footprint_from_mask(...) *)
CallFootprintFromData ==
    /\ pc = "ready"
    /\ data_array # NoArray
    /\ Arguments
    /\ \E nd \in {None, Some(Num(0))} :
         /\ nodata' = nd
         /\ mask' = create_mask(data_array, nd)
    /\ pc' = "footprint_from_mask"
    /\ UNCHANGED <<data_array, readerVars, pointVars, geomVars, stageVars>>

GetMaskGeometry ==
    /\ pc = "footprint_from_mask"
    /\ extracted' = get_mask_geometry(mask, transform, convex_hull, holes)
    /\ stages' = Append(stages, "extract")
    /\ pc' = "extracted"
    /\ UNCHANGED <<optVars, pointVars, geomVars, maskVars, readerVars, argVars,
                   densified, reprojected, simplified, result>>

(* if geometry is None: return None *)
ReturnNone ==
    /\ pc = "extracted"
    /\ extracted = None
    /\ result' = Returned(None)
    /\ pc' = "returned"
    /\ UNCHANGED <<optVars, pointVars, geomVars, maskVars, readerVars, argVars,
                   stages, extracted, densified, reprojected, simplified>>

(* where a stage leaves the call: at the next statement, or out of it *)
After(out, next) == IF out.raised # "" THEN "raised" ELSE next
Outcome(out) == IF out.raised # "" THEN Raised(out.raised, None) ELSE result

DensifyGeometry ==
    /\ pc = "extracted"
    /\ extracted # None
    /\ LET out == densify_geometry(Get(extracted), factor, distance, DEFAULT_PRECISION)
       IN /\ densified' = out
          /\ result' = Outcome(out)
          /\ pc' = After(out, "densified")
    /\ stages' = Append(stages, "densify")
    /\ UNCHANGED <<optVars, pointVars, geomVars, maskVars, readerVars, argVars,
                   extracted, reprojected, simplified>>

(* A slip: the extracted geometry is reprojected, the densified one is lost. *)
ReprojectExtracted ==
    /\ pc = "densified"
    /\ LET out == reproject_geometry(Get(extracted), source_crs, destination_crs,
                                     Default(precision, DEFAULT_PRECISION))
       IN /\ reprojected' = out
          /\ result' = Outcome(out)
          /\ pc' = After(out, "reprojected")
    /\ stages' = Append(stages, "reproject")
    /\ UNCHANGED <<optVars, pointVars, geomVars, maskVars, readerVars, argVars,
                   extracted, densified, simplified>>

(* A slip: the destination CRS of the call is not passed on. *)
ReprojectToWGS84 ==
    /\ pc = "densified"
    /\ LET out == reproject_geometry(densified.value, source_crs, WGS84,
                                     Default(precision, DEFAULT_PRECISION))
       IN /\ reprojected' = out
          /\ result' = Outcome(out)
          /\ pc' = After(out, "reprojected")
    /\ stages' = Append(stages, "reproject")
    /\ UNCHANGED <<optVars, pointVars, geomVars, maskVars, readerVars, argVars,
                   extracted, densified, simplified>>

ReprojectGeometry ==
    /\ pc = "densified"
    /\ LET out == reproject_geometry(densified.value, source_crs, destination_crs,
                                     Default(precision, DEFAULT_PRECISION))
       IN /\ reprojected' = out
          /\ result' = Outcome(out)
          /\ pc' = After(out, "reprojected")
    /\ stages' = Append(stages, "reproject")
    /\ UNCHANGED <<optVars, pointVars, geomVars, maskVars, readerVars, argVars,
                   extracted, densified, simplified>>

SimplifyGeometry ==
    /\ pc = "reprojected"
    /\ LET out == simplify_geometry(reprojected.value, tolerance)
       IN /\ simplified' = out
          /\ result' = Outcome(out)
          /\ pc' = After(out, "simplified")
    /\ stages' = Append(stages, "simplify")
    /\ UNCHANGED <<optVars, pointVars, geomVars, maskVars, readerVars, argVars,
                   extracted, densified, reprojected>>

(* return mapping(simplified) *)
ReturnMapping ==
    /\ pc = "simplified"
    /\ result' = Returned(Some(mapping(simplified.value)))
    /\ stages' = Append(stages, "serialize")
    /\ pc' = "returned"
    /\ UNCHANGED <<optVars, pointVars, geomVars, maskVars, readerVars, argVars,
                   extracted, densified, reprojected, simplified>>

Next ==
    \/ CallFootprintFromMask
    \/ CallFootprintFromData
    \/ GetMaskGeometry
    \/ ReturnNone
    \/ DensifyGeometry
    \/ ReprojectGeometry
    \/ SimplifyGeometry
    \/ ReturnMapping

Spec == InitFoot /\ [][Next]_vars

----------------------------------------------------------------------------
(* Masks given to get_mask_extent: every 3 x 3 grid of 0 and 255, every    *)
(* 5 x 5 grid whose border cells are all valid and whose centre cell has   *)
(* no valid cell beside it (the centre, when valid, is an island in the    *)
(* hole of the border region), and a 7 x 7 grid of nested rings.  Here     *)
(* holes is None when the argument is not given.                           *)

Interior(shape) == [2..(shape[1] - 1) -> [2..(shape[2] - 1) -> {0, VALID}]]

(* the grid of valid border cells around the cells of `inner` *)
Bordered(shape, inner) ==
    [r \in 1..shape[1] |->
        [c \in 1..shape[2] |->
            IF r \in {1, shape[1]} \/ c \in {1, shape[2]} THEN VALID ELSE inner[r][c]]]

(* valid cells at the odd distances from the border *)
NestedRings ==
    [r \in 1..7 |->
        [c \in 1..7 |->
            LET depth == CHOOSE d \in 1..4 :
                            /\ {r, c, 8 - r, 8 - c} \cap 1..(d - 1) = {}
                            /\ d \in {r, c, 8 - r, 8 - c}
            IN IF depth % 2 = 1 THEN VALID ELSE 0]]

ExtractMasks ==
    { Array(2, <<g>>) :
        g \in Grids(<<3, 3>>, {0, VALID})
                \cup { Bordered(<<5, 5>>, inner) :
                          inner \in { i \in Interior(<<5, 5>>) :
                                        \A rc \in { <<2, 3>>, <<3, 2>>, <<3, 4>>, <<4, 3>> } :
                                           i[rc[1]][rc[2]] = 0 } }
                \cup {NestedRings} }

(* the default transform, a north-up transform, one that swaps the axes *)
ExtractTransforms ==
    { Affine(1, 0, 0, 0, 1, 0), Affine(10, 0, 0, 0, -10, 70), Affine(0, 10, 0, 10, 0, 0) }

(* holes: bool = True *)
HOLES_DEFAULT == TRUE

InitExtract ==
    /\ pc = "ready"
    /\ mask \in ExtractMasks
    /\ data_array = NoArray
    /\ nodata = None
    /\ factor = None
    /\ distance = None
    /\ precision = None
    /\ tolerance = None
    /\ IdlePoints
    /\ IdleGeom
    /\ IdleFoot

CallGetMaskExtent ==
    /\ pc = "ready"
    /\ \E t \in ExtractTransforms, hull \in BOOLEAN, h \in {None, Some(TRUE), Some(FALSE)} :
         /\ transform' = t
         /\ convex_hull' = hull
         /\ holes' = h
         /\ extracted' = get_mask_extent(mask, t, hull, Default(h, HOLES_DEFAULT))
    /\ pc' = "get_mask_extent"
    /\ UNCHANGED <<optVars, pointVars, geomVars, maskVars, readerVars, source_crs, destination_crs,
                   stages, densified, reprojected, simplified, result>>

NextExtract == CallGetMaskExtent

SpecExtract == InitExtract /\ [][NextExtract]_vars

----------------------------------------------------------------------------
(* Readers given to footprint_from_rasterio_reader: rasters of one row and *)
(* two columns.  In each cell the first k bands hold 1 and the others 0.   *)
(* The small readers have no band or a few, all but the last sharing a     *)
(* nodata value; the wide readers have as many bands as a uint8 sum wraps  *)
(* at, with one nodata value or none.                                      *)

ReaderShape == <<1, 2>>

MetaNodata == {None, Some(Num(0)), Some(Num(1)), Some(NaN)}

Nodatavals(B) == { [b \in 1..B |-> IF b < B THEN v ELSE w] : v, w \in MetaNodata }

Leads(ks) == [1..ReaderShape[1] -> [1..ReaderShape[2] -> ks]]

Reader(nv, k) ==
    [nodatavals |-> nv,
     data |-> Array(3, Bands(Len(nv), ReaderShape, k, Num(0))),
     shape |-> ReaderShape,
     transform |-> Affine(10, 0, 0, 0, -10, 30),
     crs |-> UTM31N]

SmallReaders ==
    UNION { { Reader(nv, k) : nv \in Nodatavals(B), k \in Leads(0..B) } : B \in 0..MaxBands }

WideReaders ==
    { Reader([b \in 1..UINT8_MODULUS |-> v], k) :
         v \in {None, Some(Num(0))}, k \in Leads({0, UINT8_MODULUS}) }

Readers == SmallReaders \cup WideReaders

(* the bands argument: absent, the empty list, one band, all bands, and    *)
(* the last band before the first                                          *)
BandLists(B) ==
    {None, Some(<<>>)}
      \cup (IF B >= 1 THEN {Some(<<1>>), Some(<<B>>), Some([b \in 1..B |-> b])} ELSE {})
      \cup (IF B >= 2 THEN {Some(<<B, 1>>)} ELSE {})

InitReader ==
    /\ pc = "ready"
    /\ reader \in Readers
    /\ bands = None
    /\ with_nodata = FALSE
    /\ reads = <<>>
    /\ factor = None
    /\ distance = None
    /\ precision = None
    /\ tolerance = None
    /\ IdlePoints
    /\ IdleGeom
    /\ IdleMask
    /\ IdleCall

(* the call up to footprint_from_mask(mask, reader.transform, reader.crs, ...) *)
CallFootprintFromRasterioReader ==
    /\ pc = "ready"
    /\ reader # NoReader
    /\ \E nd \in NodataArgs, wn \in BOOLEAN, bs \in BandLists(Len(reader.nodatavals)) :
         LET out == footprint_from_rasterio_reader(reader, nd, wn, bs)
         IN /\ nodata' = nd
            /\ with_nodata' = wn
            /\ bands' = bs
            /\ reads' = out.reads
            /\ mask' = out.value
            /\ result' = IF out.raised # "" THEN Raised(out.raised, None) ELSE result
            /\ pc' = IF out.raised # "" THEN "raised" ELSE "footprint_from_mask"
    /\ transform' = reader.transform
    /\ source_crs' = reader.crs
    /\ UNCHANGED <<reader, data_array, optVars, pointVars, geomVars,
                   destination_crs, convex_hull, holes,
                   stages, extracted, densified, reprojected, simplified>>

NextReader ==
    \/ CallFootprintFromRasterioReader
    \/ GetMaskGeometry
    \/ ReturnNone
    \/ DensifyGeometry
    \/ ReprojectGeometry
    \/ SimplifyGeometry
    \/ ReturnMapping

SpecReader == InitReader /\ [][NextReader]_vars

----------------------------------------------------------------------------
(* Properties of densify_by_factor and densify_by_distance (SpecPoints). *)

(* r is v rounded half-to-even to a multiple of u *)
IsRounded(v, r, u) ==
    /\ r % u = 0
    /\ 2 * Abs(v - r) <= u
    /\ 2 * Abs(v - r) = u => (r \div u) % 2 = 0

IsRoundedPoint(p, r, u) == IsRounded(p[1], r[1], u) /\ IsRounded(p[2], r[2], u)

(* floor(L / d) for a segment of squared length s *)
FloorSteps(s, d) ==
    CHOOSE m \in 0..s : m * m * d * d <= s /\ (m + 1) * (m + 1) * d * d > s

(* the number of points densify_by_distance put strictly between the two  *)
(* end points of segment `index`                                           *)
Inserted(index) ==
    IF segments_out[index] = <<>> THEN 0 ELSE Len(segments_out[index]) - 1

SegmentSquaredLength(index) == SquaredLength(point_list[index], point_list[index + 1])

(* C1: densify_by_factor of N >= 2 points with factor F >= 1 returns      *)
(* exactly F*(N-1)+1 points.                                               *)
C1_FactorLength ==
    (pc = "densify_by_factor" /\ Len(point_list) >= 2)
        => Len(points_out) = Get(factor) * (Len(point_list) - 1) + 1

C1_Witness ==
    /\ pc = "densify_by_factor"
    /\ Len(point_list) = 3
    /\ factor = Some(2)
    /\ Len(points_out) = 5

(* C2 as stated: every segment of length L gets exactly floor(L/distance)  *)
(* points strictly between its end points, exact multiples included.       *)
C2_FloorInserted ==
    pc = "densify_by_distance"
        => \A index \in 1..(Len(point_list) - 1) :
              Inserted(index) = FloorSteps(SegmentSquaredLength(index), Get(distance))

(* C2 amended: a segment of length L > 0 gets ceil(L/distance) - 1 points  *)
(* strictly between its end points: floor(L/distance) when L is no exact   *)
(* multiple of distance, L/distance - 1 when it is; a segment of length 0  *)
(* gets none.                                                              *)
C2_CeilInserted ==
    pc = "densify_by_distance"
        => \A index \in 1..(Len(point_list) - 1) :
              LET s == SegmentSquaredLength(index)
                  d == Get(distance)
                  m == FloorSteps(s, d)
              IN Inserted(index) = IF s > 0 /\ m * m * d * d = s THEN m - 1 ELSE m

C2_Witness ==
    /\ pc = "densify_by_distance"
    /\ point_list = << <<0, 0>>, <<10, 0>> >>
    /\ distance = Some(5)
    /\ Inserted(1) = 1
    /\ Len(points_out) = 3

(* C3 as stated: without an explicit precision every original point is     *)
(* found unchanged at index i*F of the output.                              *)
C3_OriginalUnchanged ==
    (pc = "densify_by_factor" /\ precision = None)
        => \A i \in 1..Len(point_list) :
              points_out[(i - 1) * Get(factor) + 1] = point_list[i]

(* C3 amended: without an explicit precision the point at index i*F of the *)
(* output is original point i rounded (half to even) to DEFAULT_PRECISION  *)
(* decimal places, so it is unchanged exactly when it has no more than     *)
(* DEFAULT_PRECISION decimal places.                                       *)
C3_OriginalRounded ==
    (pc = "densify_by_factor" /\ precision = None)
        => \A i \in 1..Len(point_list) :
              IsRoundedPoint(point_list[i],
                             points_out[(i - 1) * Get(factor) + 1],
                             Pow10(Resolution - DEFAULT_PRECISION))

C3_Witness ==
    /\ pc = "densify_by_factor"
    /\ precision = None
    /\ factor = Some(2)
    /\ point_list = << <<10, 10>>, <<3, 4>>, <<5, 15>> >>
    /\ points_out[1] = <<10, 10>>
    /\ points_out[3] = <<0, 0>>
    /\ points_out[5] = <<0, 20>>

(* m * sqrt(s) <= n, for integers m, n and s >= 0 *)
SurdLeq(m, s, n) ==
    IF m >= 0 THEN n >= 0 /\ m * m * s <= n * n
              ELSE n >= 0 \/ m * m * s >= n * n

(* coordinate r is, to half a unit u, the coordinate at distance t from a  *)
(* along a segment of squared length s that spans w in this coordinate     *)
IsAlong(r, a, w, t, s, u) ==
    /\ r % u = 0
    /\ SurdLeq(2 * (r - a) - u, s, 2 * t * w)
    /\ SurdLeq(-(2 * (r - a) + u), s, -(2 * t * w))

(* the points densify_by_distance returned for segment `index`, with the   *)
(* end point of the segment                                                *)
SegmentOut(index) ==
    LET first == Len(Flatten(SubSeq(segments_out, 1, index - 1))) + 1
    IN SubSeq(points_out, first, first + Len(segments_out[index]))

(* the segment's points are met by the arithmetic without rounding *)
ExactSegment(index) ==
    LET p == point_list[index]
        q == point_list[index + 1]
        d == Get(distance)
    IN /\ precision = Some(Resolution)
       /\ \E L \in 1..SegmentSquaredLength(index) :
             /\ L * L = SegmentSquaredLength(index)
             /\ \A k \in 0..(Len(segments_out[index]) - 1) :
                   /\ (k * d * (q[1] - p[1])) % L = 0
                   /\ (k * d * (q[2] - p[2])) % L = 0

(* C26 as stated: the gaps between consecutive points of a segment, the    *)
(* gap to its end point included, are all equal.                           *)
C26_EqualGaps ==
    pc = "densify_by_distance"
        => \A index \in 1..(Len(point_list) - 1) :
              ExactSegment(index)
                 => \A i, j \in 1..(Len(SegmentOut(index)) - 1) :
                       SquaredLength(SegmentOut(index)[i], SegmentOut(index)[i + 1])
                          = SquaredLength(SegmentOut(index)[j], SegmentOut(index)[j + 1])

(* C26 amended: the points of a segment lie on it at the distances 0,      *)
(* distance, 2 * distance, ... from its start point, rounded to the        *)
(* precision; the last of them is less than the length of the segment from *)
(* the start and at most `distance` from the end point, so the gap to the  *)
(* end point equals the others only when the length is a multiple of       *)
(* `distance`.                                                             *)
C26_SpacedFromStart ==
    pc = "densify_by_distance"
        => \A index \in 1..(Len(point_list) - 1) :
              LET p == point_list[index]
                  q == point_list[index + 1]
                  s == SegmentSquaredLength(index)
                  d == Get(distance)
                  n == Len(segments_out[index])
                  u == Pow10(Resolution - Default(precision, DEFAULT_PRECISION))
              IN /\ \A k \in 1..n :
                       /\ IsAlong(segments_out[index][k][1], p[1], q[1] - p[1],
                                  (k - 1) * d, s, u)
                       /\ IsAlong(segments_out[index][k][2], p[2], q[2] - p[2],
                                  (k - 1) * d, s, u)
                 /\ s > 0 => /\ n >= 1
                             /\ (n - 1) * (n - 1) * d * d < s
                             /\ n * n * d * d >= s
                 /\ SegmentOut(index)[1 + n][1] % u = 0
                 /\ 2 * Abs(SegmentOut(index)[1 + n][1] - q[1]) <= u
                 /\ 2 * Abs(SegmentOut(index)[1 + n][2] - q[2]) <= u

C26_Witness ==
    /\ pc = "densify_by_distance"
    /\ point_list = << <<0, 0>>, <<10, 0>>, <<10, 10>> >>
    /\ distance = Some(3)
    /\ precision = Some(Resolution)
    /\ ExactSegment(1)
    /\ SegmentOut(1) = << <<0, 0>>, <<3, 0>>, <<6, 0>>, <<9, 0>>, <<10, 0>> >>
    /\ SegmentOut(2) = << <<10, 0>>, <<10, 3>>, <<10, 6>>, <<10, 9>>, <<10, 10>> >>

----------------------------------------------------------------------------
(* Properties of densify_geometry and simplify_extent (SpecGeom). *)

IsPolygonal(g) == g.type \in {"Polygon", "MultiPolygon"}

(* C4: densify_geometry with both factor and distance set raises for every *)
(* Polygon and MultiPolygon, the MultiPolygon of no polygons included, and *)
(* returns no geometry.                                                    *)
C4_BothSetRaises ==
    (pc = "densify_geometry" /\ factor # None /\ distance # None /\ IsPolygonal(geometry))
        => geom_out = Raised("ValueError", NoGeometry)

(* C5: with neither factor nor distance densify_geometry returns its       *)
(* argument unchanged, and so does simplify_extent without a tolerance,    *)
(* for every Polygon and MultiPolygon and every precision.                 *)
C5_AbsentIsIdentity ==
    /\ (pc = "densify_geometry" /\ factor = None /\ distance = None /\ IsPolygonal(geometry))
          => geom_out = Returned(geometry)
    /\ (pc = "simplify_extent" /\ tolerance = None /\ IsPolygonal(geometry))
          => geom_out = Returned(geometry)

C5_Witness ==
    /\ pc = "densify_geometry"
    /\ factor = None
    /\ distance = None
    /\ precision = Some(DEFAULT_PRECISION - 1)
    /\ geometry.type = "MultiPolygon"
    /\ Len(geometry.geoms) = 2
    /\ geometry.geoms[1].holes = <<SquareHole>>
    /\ geometry.geoms[2].shell = Skew
    /\ geom_out.raised = ""
    /\ geom_out.value.geoms[2].shell[1] = <<3, 4>>

----------------------------------------------------------------------------
(* Properties of create_mask (SpecMask). *)


(* the value v is data under the nodata value nd (NaN-aware) *)
IsData(v, nd) == IF nd.nan THEN ~v.nan ELSE (v.nan \/ v.v # nd.v)

(* C6: with nodata present, a cell of the mask is 255 if and only if at    *)
(* least one band holds a value that is not nodata there, and 0 otherwise, *)
(* for any number of bands.                                                *)
C6_AnyBandValid ==
    (pc = "create_mask" /\ nodata # None)
        => /\ mask.ndim = 2
           /\ \A r \in 1..Len(Plane(mask)) : \A c \in 1..Len(Plane(mask)[r]) :
                 Plane(mask)[r][c] =
                    IF \E b \in 1..Len(data_array.a) :
                          IsData(data_array.a[b][r][c], Get(nodata))
                    THEN 255 ELSE 0

(* C7: with nodata absent the mask of a (R, C) or (B, R, C) array is a 2D  *)
(* (R, C) grid of 255, whatever the pixel values.                          *)
C7_NoNodataAllValid ==
    (pc = "create_mask" /\ nodata = None)
        => /\ mask.ndim = 2
           /\ Len(mask.a) = 1
           /\ Len(Plane(mask)) = Len(Plane(data_array))
           /\ \A r \in 1..Len(Plane(mask)) :
                 /\ Len(Plane(mask)[r]) = Len(Plane(data_array)[r])
                 /\ \A c \in 1..Len(Plane(mask)[r]) : Plane(mask)[r][c] = 255

C7_Witness ==
    /\ pc = "create_mask"
    /\ nodata = None
    /\ data_array.ndim = 3
    /\ Len(data_array.a) = 2
    /\ data_array.a[1] = << <<Num(1), Num(0)>>, <<Num(0), Num(0)>> >>
    /\ mask = Array(2, << << <<255, 255>>, <<255, 255>> >> >>)

----------------------------------------------------------------------------
(* C8: for a mask in which no cell is 255 the extractor returns None for   *)
(* every combination of convex_hull and holes, and footprint_from_mask and *)
(* footprint_from_data return None: they do not raise and run no densify,  *)
(* reproject or simplify stage.                                            *)
C8_NoFootprint ==
    (pc # "ready" /\ ValidCells(mask) = {})
        => /\ \A hull \in BOOLEAN, keep \in BOOLEAN :
                 get_mask_extent(mask, transform, hull, keep) = None
           /\ pc \in {"footprint_from_mask", "extracted", "returned"}
           /\ pc # "footprint_from_mask" => extracted = None /\ stages = <<"extract">>
           /\ pc = "returned" => result = Returned(None)

C8_Witness ==
    /\ pc = "returned"
    /\ data_array # NoArray
    /\ nodata = Some(Num(0))
    /\ ValidCells(mask) = {}
    /\ convex_hull
    /\ holes
    /\ factor # None
    /\ tolerance # None
    /\ stages = <<"extract">>
    /\ result = Returned(None)

(* C9: the stages of footprint_from_mask run in the one order extract,     *)
(* densify, reproject, simplify, serialize; each one is run at most once   *)
(* on the output of the one before it, and the call returns None if and    *)
(* only if the extractor returned None.                                    *)
C9_FixedOrder ==
    /\ \E n \in 0..Len(StageOrder) : stages = SubSeq(StageOrder, 1, n)
    /\ Len(stages) >= 1 =>
          extracted = get_mask_geometry(mask, transform, convex_hull, holes)
    /\ Len(stages) >= 2 =>
          /\ extracted # None
          /\ densified = densify_geometry(Get(extracted), factor, distance, DEFAULT_PRECISION)
    /\ Len(stages) >= 3 =>
          /\ densified.raised = ""
          /\ reprojected = reproject_geometry(densified.value, source_crs, destination_crs,
                                              Default(precision, DEFAULT_PRECISION))
    /\ Len(stages) >= 4 =>
          /\ reprojected.raised = ""
          /\ simplified = simplify_geometry(reprojected.value, tolerance)
    /\ Len(stages) >= 5 =>
          /\ simplified.raised = ""
          /\ result = Returned(Some(mapping(simplified.value)))
    /\ pc = "returned" =>
          /\ result.raised = ""
          /\ (result.value = None) <=> (extracted = None)
          /\ extracted # None => stages = StageOrder

C9_Witness ==
    /\ pc = "returned"
    /\ stages = StageOrder
    /\ source_crs # destination_crs
    /\ extracted # None
    /\ densified.value # Get(extracted)
    /\ reprojected.value # densified.value
    /\ simplified.value # reprojected.value
    /\ result.value # None

(* C10: footprint_from_mask and footprint_from_data called with both       *)
(* densify_factor and densify_distance fail with a ValueError for every    *)
(* mask, a mask without a valid cell included: they never return.          *)
C10_BothSetFails ==
    (factor # None /\ distance # None)
        => /\ pc # "returned"
           /\ pc = "raised" => result.raised = "ValueError"

----------------------------------------------------------------------------
(* Properties of get_mask_extent (SpecExtract). *)

Extracted == Get(extracted).geoms

GridCells(m) == (1..Len(Plane(m))) \X (1..Len(Plane(m)[1]))

(* the cells outside region K that no path of cells outside K joins to the *)
(* border of the grid: the holes of K and what lies in them                *)
Enclosed(m, K) ==
    LET outside == GridCells(m) \ K
        border == { rc \in outside : rc[1] \in {1, Len(Plane(m))}
                                       \/ rc[2] \in {1, Len(Plane(m)[1])} }
    IN outside \ Reach(outside, border)

(* the mask with the holes of every region made valid *)
FillHoles(m) ==
    LET regions == Regions(ValidCells(m))
        filled == ValidCells(m) \cup UNION { Enclosed(m, regions[i]) : i \in 1..Len(regions) }
    IN Array(2, << [r \in 1..Len(Plane(m)) |->
                      [c \in 1..Len(Plane(m)[1]) |->
                          IF <<r, c>> \in filled THEN VALID ELSE 0]] >>)

(* C11: with holes = false and convex_hull = false no polygon of the       *)
(* result has an interior ring, and the result is the one of the mask with *)
(* its holes filled: a region inside a hole of another region is no        *)
(* polygon of its own.                                                     *)
C11_HolesFilled ==
    (pc = "get_mask_extent" /\ ~convex_hull /\ holes = Some(FALSE) /\ extracted # None)
        => /\ \A i \in 1..Len(Extracted) : Extracted[i].holes = <<>>
           /\ extracted = get_mask_extent(FillHoles(mask), transform, FALSE, TRUE)

C11_Witness ==
    /\ pc = "get_mask_extent"
    /\ ~convex_hull
    /\ holes = Some(FALSE)
    /\ Len(Plane(mask)) = 5
    /\ Plane(mask)[3][3] = VALID
    /\ Plane(mask)[2][2] = VALID
    /\ Len(Regions(ValidCells(mask))) = 2
    /\ extracted # None
    /\ Get(extracted).type = "Polygon"
    /\ transform.e < 0

(* C12: get_mask_extent called without the holes argument returns polygons *)
(* without interior rings.                                                 *)
C12_DefaultDropsHoles ==
    (pc = "get_mask_extent" /\ holes = None /\ extracted # None)
        => \A i \in 1..Len(Extracted) : Extracted[i].holes = <<>>

IsConvexRing(ring) ==
    \A i \in 1..(Len(ring) - 1) :
        Cross(ring[i], ring[i + 1], ring[IF i + 2 > Len(ring) THEN 2 ELSE i + 2]) > 0

(* C13: with convex_hull = true the result for a mask with a valid cell is *)
(* one Polygon without interior rings, convex and around every region, and *)
(* the same whatever holes is.                                             *)
C13_HullSinglePolygon ==
    (pc = "get_mask_extent" /\ convex_hull /\ ValidCells(mask) # {})
        => /\ extracted # None
           /\ Get(extracted).type = "Polygon"
           /\ Len(Extracted) = 1
           /\ Extracted[1].holes = <<>>
           /\ IsConvexRing(Extracted[1].shell)
           /\ \A i \in 1..Len(shapes(mask, transform)) :
                 \A k \in 1..Len(shapes(mask, transform)[i].shell) :
                    Covers(Extracted[1].shell, shapes(mask, transform)[i].shell[k])
           /\ \A keep \in BOOLEAN : extracted = get_mask_extent(mask, transform, TRUE, keep)

C13_Witness ==
    /\ pc = "get_mask_extent"
    /\ convex_hull
    /\ holes = Some(TRUE)
    /\ mask = Array(2, <<NestedRings>>)
    /\ extracted = Some(PolygonGeometry([shell |-> << <<0, 0>>, <<70, 0>>, <<70, 70>>,
                                                     <<0, 70>>, <<0, 0>> >>,
                                         holes |-> <<>>]))

(* C14: whatever the mask, the transform, holes and convex_hull are, every *)
(* polygon of the result has a counter-clockwise exterior ring and         *)
(* clockwise interior rings.                                               *)
C14_ExtractedWinding ==
    (pc = "get_mask_extent" /\ extracted # None)
        => \A i \in 1..Len(Extracted) :
              /\ SignedArea2(Extracted[i].shell) > 0
              /\ \A n \in 1..Len(Extracted[i].holes) : SignedArea2(Extracted[i].holes[n]) < 0

C14_Witness ==
    /\ pc = "get_mask_extent"
    /\ transform.e < 0
    /\ ~convex_hull
    /\ holes = Some(TRUE)
    /\ extracted # None
    /\ Len(Extracted) = 2
    /\ Extracted[1].holes # <<>>
    /\ SignedArea2(shapes(mask, transform)[1].shell) < 0
    /\ SignedArea2(Extracted[1].shell) > 0
    /\ SignedArea2(Extracted[1].holes[1]) < 0

----------------------------------------------------------------------------
(* Properties of densify_geometry, reproject_extent and simplify_extent on *)
(* rings of any winding and on rings that shrink (SpecGeom).               *)

StageCalls == {"densify_geometry", "reproject_extent", "simplify_extent"}

Rings(polygon) == <<polygon.shell>> \o polygon.holes

(* C15: every polygon produced by densify_geometry, reproject_extent and   *)
(* simplify_extent has a counter-clockwise exterior ring and clockwise     *)
(* interior rings, whatever the winding of the rings it was given.         *)
C15_LaterStagesWinding ==
    (pc \in StageCalls /\ IsPolygonal(geometry) /\ geom_out.raised = "")
        => \A i \in 1..Len(geom_out.value.geoms) :
              LET polygon == geom_out.value.geoms[i]
              IN polygon.shell # <<>>
                    => /\ SignedArea2(polygon.shell) > 0
                       /\ \A n \in 1..Len(polygon.holes) : SignedArea2(polygon.holes[n]) < 0

(* a ring without the points that equal the point before them *)
RECURSIVE Squeeze(_)
Squeeze(ring) ==
    IF Len(ring) < 2 THEN ring
    ELSE IF ring[1] = ring[2] THEN Squeeze(Tail(ring))
    ELSE <<ring[1]>> \o Squeeze(Tail(ring))

(* the rings of the polygons of the argument of reproject_extent after the *)
(* transformation and the rounding                                         *)
MovedRings ==
    [i \in 1..Len(geometry.geoms) |->
        Rings(transform_geom(source_crs, WGS84, geometry.geoms[i],
                             Default(precision, DEFAULT_PRECISION)))]

(* C16: every ring reproject_extent returns is the transformed ring less   *)
(* the points equal to their predecessor, in the same order and with the   *)
(* repeats that are not consecutive, and has no two consecutive equal      *)
(* points.                                                                 *)
C16_ConsecutiveDuplicatesRemoved ==
    (pc = "reproject_extent" /\ IsPolygonal(geometry) /\ geom_out.raised = "")
        => /\ Len(geom_out.value.geoms) = Len(geometry.geoms)
           /\ \A i \in 1..Len(geom_out.value.geoms) :
                 LET rings == Rings(geom_out.value.geoms[i])
                 IN /\ Len(rings) = Len(MovedRings[i])
                    /\ \A n \in 1..Len(rings) :
                          /\ rings[n] = Squeeze(MovedRings[i][n])
                          /\ \A k \in 1..(Len(rings[n]) - 1) : rings[n][k] # rings[n][k + 1]

(* C17: every closed ring given to reproject_extent is, after the rounding *)
(* and the removal of duplicates, still closed by a last point of its own, *)
(* and so are the rings of the polygon returned.                           *)
C17_RingStaysClosed ==
    (pc = "reproject_extent" /\ IsPolygonal(geometry))
        => /\ \A i \in 1..Len(MovedRings) : \A n \in 1..Len(MovedRings[i]) :
                 LET ring == groupby_keys(MovedRings[i][n])
                 IN Len(ring) >= 2 /\ ring[1] = ring[Len(ring)]
           /\ geom_out.raised = ""
           /\ \A i \in 1..Len(geom_out.value.geoms) :
                 \A n \in 1..Len(Rings(geom_out.value.geoms[i])) :
                    LET ring == Rings(geom_out.value.geoms[i])[n]
                    IN Len(ring) >= 2 /\ ring[1] = ring[Len(ring)]

(* the ring densify_by_factor or densify_by_distance makes of a ring with  *)
(* the arguments of the call                                               *)
RingDensified(ring) ==
    IF factor # None
    THEN densify_by_factor(ring, Get(factor), Default(precision, DEFAULT_PRECISION))
    ELSE densify_by_distance(ring, Get(distance), Default(precision, DEFAULT_PRECISION))

(* C27: densify_geometry with a factor or a distance keeps the number and  *)
(* the order of the polygons and of the interior rings of each, and every  *)
(* ring, exterior or interior, is the ring densified with that factor or   *)
(* that distance; with factor F a ring of n points has F*(n-1)+1 points.   *)
C27_StructureKept ==
    (pc = "densify_geometry" /\ IsPolygonal(geometry) /\ (factor = None) # (distance = None))
        => /\ geom_out.raised = ""
           /\ geom_out.value.type = geometry.type
           /\ Len(geom_out.value.geoms) = Len(geometry.geoms)
           /\ \A i \in 1..Len(geometry.geoms) :
                 LET given == Rings(geometry.geoms[i])
                     made == Rings(geom_out.value.geoms[i])
                 IN /\ Len(made) = Len(given)
                    /\ \A n \in 1..Len(given) :
                          /\ made[n] = RingDensified(given[n])
                          /\ factor # None
                                => Len(made[n]) = Get(factor) * (Len(given[n]) - 1) + 1

C27_Witness ==
    /\ pc = "densify_geometry"
    /\ factor = Some(2)
    /\ distance = None
    /\ precision = Some(Resolution)
    /\ geometry.type = "MultiPolygon"
    /\ Len(geometry.geoms) = 2
    /\ geometry.geoms[1].shell = Skew
    /\ geometry.geoms[2].holes = <<SquareHole>>
    /\ Len(geom_out.value.geoms) = 2
    /\ Len(geom_out.value.geoms[1].shell) = 9
    /\ geom_out.value.geoms[2].holes
          = << << <<10, 10>>, <<10, 15>>, <<10, 20>>, <<15, 20>>, <<20, 20>>,
                  <<20, 15>>, <<20, 10>>, <<15, 10>>, <<10, 10>> >> >>

(* the positions a ring passes through *)
Positions(ring) == { ring[k] : k \in 1..Len(ring) }

(* C30: every closed ring of at least 4 points given to reproject_extent   *)
(* has, after the rounding and the removal of duplicates, still at least 4 *)
(* points, 3 of them distinct; the call builds its polygon and no ring of  *)
(* it is degenerate.                                                       *)
C30_RingLongEnough ==
    (pc = "reproject_extent" /\ IsPolygonal(geometry))
        => /\ \A i \in 1..Len(MovedRings) : \A n \in 1..Len(MovedRings[i]) :
                 LET ring == groupby_keys(MovedRings[i][n])
                 IN Len(ring) >= 4 /\ Cardinality(Positions(ring)) >= 3
           /\ geom_out.raised # "ValueError"
           /\ \A i \in 1..Len(geom_out.value.geoms) :
                 \A n \in 1..Len(Rings(geom_out.value.geoms[i])) :
                    Cardinality(Positions(Rings(geom_out.value.geoms[i])[n])) >= 3

(* every point of the ring is within the tolerance of its first point *)
WithinTolerance(ring, tol) ==
    \A k \in 1..Len(ring) : SquaredLength(ring[1], ring[k]) <= tol * tol

(* C19: simplify_extent with a tolerance never raises.  A polygon whose    *)
(* shell lies within the tolerance of its first point becomes the empty    *)
(* polygon and is no member of the MultiPolygon returned; a hole within    *)
(* the tolerance is no hole of the result, whose shell and other holes are *)
(* each the simplification of their own ring.                              *)
C19_CollapseIsEmpty ==
    (pc = "simplify_extent" /\ IsPolygonal(geometry) /\ tolerance # None)
        => LET tol == Get(tolerance)
               out == geom_out.value.geoms
               lasting == SelectSeq(geometry.geoms,
                                    LAMBDA p : ~WithinTolerance(p.shell, tol))
               alone(p) == geos_simplify([shell |-> p.shell, holes |-> <<>>], tol)
           IN /\ geom_out.raised = ""
              /\ geom_out.value.type = geometry.type
              /\ geometry.type = "Polygon"
                    => /\ Len(out) = 1
                       /\ lasting = <<>> => out[1] = EmptyPolygon
                       /\ out[1].shell = alone(geometry.geoms[1]).shell
                       /\ \A n \in 1..Len(out[1].holes) :
                             \E m \in 1..Len(geometry.geoms[1].holes) :
                                LET hole == geometry.geoms[1].holes[m]
                                IN /\ ~WithinTolerance(hole, tol)
                                   /\ out[1].holes[n] = DouglasPeucker(hole, tol)
              /\ geometry.type = "MultiPolygon"
                    => /\ Len(out) <= Len(lasting)
                       /\ \A i \in 1..Len(out) :
                             /\ out[i] # EmptyPolygon
                             /\ \E j \in 1..Len(lasting) :
                                   /\ out[i].shell = alone(lasting[j]).shell
                                   /\ Len(out[i].holes)
                                         <= Len(SelectSeq(lasting[j].holes,
                                                LAMBDA h : ~WithinTolerance(h, tol)))

C19_Witness ==
    /\ pc = "simplify_extent"
    /\ tolerance = Some(60)
    /\ geometry.type = "MultiPolygon"
    /\ Len(geometry.geoms) = 2
    /\ geometry.geoms[1].holes = <<SquareHole>>
    /\ geometry.geoms[2].shell = Skew
    /\ geom_out = Returned(MultiPolygon(<<>>))

(* C20: densify_geometry, reproject_extent and simplify_extent raise       *)
(* TypeError and return nothing for a geometry that is neither a Polygon   *)
(* nor a MultiPolygon, whatever their other arguments, and for no Polygon  *)
(* and no MultiPolygon.                                                    *)
C20_KindCheck ==
    pc \in StageCalls
        => /\ ~IsPolygonal(geometry) => geom_out = Raised("TypeError", NoGeometry)
           /\ IsPolygonal(geometry) => geom_out.raised # "TypeError"

C20_Witness ==
    /\ pc = "reproject_extent"
    /\ geometry = LineStringGeometry
    /\ source_crs = UTM31N
    /\ precision = Some(DEFAULT_PRECISION - 1)
    /\ geom_out = Raised("TypeError", NoGeometry)

----------------------------------------------------------------------------
(* Properties of the reprojection stage of footprint_from_mask (Spec). *)

(* a densified coordinate in the units of the destination CRS, rounded *)
InDestination(x) ==
    np_round(Rational(x * CrsUnits(destination_crs), CrsUnits(source_crs)),
             Default(precision, DEFAULT_PRECISION))

----------------------------------------------------------------------------
(* Properties of footprint_from_rasterio_reader (SpecReader). *)

Called == pc # "ready" /\ reader # NoReader

BandCount == Len(reader.nodatavals)

(* the call ended in the checks that come before the mask *)
IsRefused == result = Raised("ValueError", None) /\ stages = <<>> /\ mask = NoArray

(* the per-band nodata values are one value; two NaN are not *)
Uniform(vals) ==
    \A i \in 2..Len(vals) :
        vals[i] = vals[1] /\ (vals[1] # None => ~Get(vals[1]).nan)

(* the nodata argument is a number and the nodata value of the first band *)
MatchesMetadata == nodata # None /\ ~Get(nodata).nan /\ reader.nodatavals[1] = nodata

(* the bands the call selects for reading pixels *)
Selected == IF bands = None \/ bands = Some(<<>>) THEN [b \in 1..BandCount |-> b]
                                                  ELSE Get(bands)

(* C21: footprint_from_rasterio_reader on a reader without bands raises    *)
(* ValueError whatever the arguments are, with_nodata included, and has    *)
(* then called no reader method for pixels or masks and made no mask.      *)
C21_NoBandsFails ==
    (Called /\ BandCount = 0)
        => /\ pc = "raised"
           /\ result = Raised("ValueError", None)
           /\ reads = <<>>
           /\ mask = NoArray
           /\ stages = <<>>

C21_Witness ==
    /\ pc = "raised"
    /\ reader # NoReader
    /\ BandCount = 0
    /\ with_nodata
    /\ nodata = Some(Num(0))
    /\ bands = Some(<<>>)
    /\ result = Raised("ValueError", None)

C23_DefaultFirstBand ==
    (Called /\ ~IsRefused /\ ~with_nodata /\ bands = None)
        => Plane(mask)
              = Plane(footprint_from_rasterio_reader(reader, nodata, FALSE, Some(<<1>>)).value)

(* C24: with with_nodata and at least one band the mask given to           *)
(* footprint_from_mask is 255 in every cell of the raster, whatever the    *)
(* nodata argument, the nodata values of the bands and the bands argument. *)
C24_WholeRaster ==
    (Called /\ BandCount >= 1 /\ with_nodata)
        => mask = np_full(reader.shape[1], reader.shape[2], VALID)

(* C25: with a list of two or more bands and no nodata argument that       *)
(* differs from the reader's, a cell of the mask is 255 exactly when the   *)
(* validity mask of one of the listed bands is 255 there, and 0 otherwise. *)
C25_AnyListedBand ==
    (Called /\ ~IsRefused /\ ~with_nodata /\ (nodata = None \/ MatchesMetadata)
       /\ bands # None /\ Len(Selected) >= 2)
        => \A r \in 1..reader.shape[1], c \in 1..reader.shape[2] :
              Plane(mask)[r][c]
                 = IF \E i \in 1..Len(Selected) : band_mask(reader, Selected[i])[r][c] = VALID
                   THEN VALID ELSE 0

(* C28: the mask given to footprint_from_mask is a 2D grid of the rows and *)
(* columns of the raster with 0 or 255 in every cell, whatever branch made *)
(* it.                                                                     *)
C28_MaskIsGrid ==
    (Called /\ ~IsRefused)
        => /\ mask.ndim = 2
           /\ Len(mask.a) = 1
           /\ Len(Plane(mask)) = reader.shape[1]
           /\ \A r \in 1..reader.shape[1] :
                 /\ Len(Plane(mask)[r]) = reader.shape[2]
                 /\ \A c \in 1..reader.shape[2] : Plane(mask)[r][c] \in {0, VALID}

(* C29: without with_nodata, a nodata argument that is not the nodata      *)
(* value of the reader makes the mask from the pixels of the selected      *)
(* bands (all bands when the list is absent or empty) with create_mask and *)
(* reads no validity mask; an argument equal to that value, or none, makes *)
(* it from the reader's validity masks and reads no pixels.                *)
C29_OverrideBranch ==
    (Called /\ ~IsRefused /\ ~with_nodata)
        => IF nodata # None /\ ~MatchesMetadata
           THEN /\ reads = <<"read">>
                /\ mask = create_mask(Array(3, [i \in 1..Len(Selected) |->
                                                   reader.data.a[Selected[i]]]), nodata)
           ELSE /\ reads \in { <<"dataset_mask">>, <<"read_masks">> }
                /\ bands \in {None, Some(<<>>)} => mask = dataset_mask(reader)

C29_Witness ==
    /\ pc = "returned"
    /\ reader.nodatavals = <<Some(Num(0)), Some(Num(0))>>
    /\ nodata = Some(Num(1))
    /\ ~with_nodata
    /\ bands = Some(<<>>)
    /\ reads = <<"read">>
    /\ reader.data.a[1] = << <<Num(1), Num(0)>> >>
    /\ reader.data.a[2] = << <<Num(1), Num(0)>> >>
    /\ Plane(dataset_mask(reader)) = << <<VALID, 0>> >>
    /\ Plane(mask) = << <<0, VALID>> >>

====
